---- MODULE Spec2Model ----
(***************************************************************************)
(* A model of airflow_dag_trigger.py: the command-line tool that           *)
(* authenticates against Keycloak and then either triggers an Airflow DAG  *)
(* run or (is meant to) report the status of the latest run.               *)
(*                                                                         *)
(* Two entry points are modelled.  entry = "main" is the script run from   *)
(* the command line (main(), line 116).  entry = "call" is a direct call   *)
(* of the module-level function get_dag_status(self, dag_id) (line 74) on  *)
(* an AirflowCLI object, the only way that function can run: it is defined *)
(* outside the class, so main()'s cli.get_dag_status(...) cannot find it.  *)
(*                                                                         *)
(* Python values are tagged records so that None, "" and ordinary strings  *)
(* stay distinct; a JSON object is a function from its keys to values.     *)
(***************************************************************************)
EXTENDS Integers, Sequences, FiniteSets, TLC

VARIABLES
    entry,          \* "main": the script; "call": get_dag_status called directly
    pc,             \* position of the single thread of control
    args,           \* the argparse namespace: trigger, get_status, conf
    conf_dict,      \* result of json.loads(args.conf)
    access_token,   \* self.access_token
    requests,       \* every HTTP request sent so far, in order
    idp_resp,       \* the identity provider's answer to authenticate()
    trig_resp,      \* the orchestrator's answer to trigger_dag()
    status_resp,    \* the orchestrator's answer to get_dag_status()
    latest_run,     \* dag_run_id, state, execution_date read at lines 96-99
    spinner_idx,    \* spinner_idx of get_dag_status
    iter,           \* completed iterations of the for loop at line 101
    tenths,         \* time since start_time, in tenths of a second
    out,            \* everything printed, in order
    exitCode        \* the process exit code; -1 while no exit has happened

vars == <<entry, pc, args, conf_dict, access_token, requests, idp_resp,
          trig_resp, status_resp, latest_run, spinner_idx, iter, tenths,
          out, exitCode>>

----------------------------------------------------------------------------
(* Bounds of the model *)

\* longest dag_runs collection a status response carries
MaxRuns == 2
\* longest network round trip of the status fetch, in tenths of a second
MaxLatency == 1

----------------------------------------------------------------------------
(* Python values *)

PyNone == [t |-> "None", s |-> ""]
PyStr(s) == [t |-> "str", s |-> s]

\* truth value of a Python value: None and "" are falsy
Truthy(v) == v.t = "str" /\ v.s # ""

\* str(v), as an f-string interpolates it
Str(v) == IF v.t = "None" THEN "None" ELSE v.s

\* str.lower(), on the run states the model uses
Lower(s) == IF s = "SUCCESS" THEN "success" ELSE s

\* dict.get(key, default)
DictGet(d, key, default) == IF key \in DOMAIN d THEN d[key] ELSE default

\* the empty JSON object
EmptyDict == [k \in {} |-> PyNone]

\* one printed line: its text, the value interpolated into it, and a number
\* (an HTTP status, a spinner glyph, the elapsed seconds).  The line that
\* reports a refused HTTP status stands for that line and the response.text
\* printed right after it.
Msg(m, a, n) == [msg |-> m, arg |-> a, num |-> n]

----------------------------------------------------------------------------
(* Inputs: command lines and server answers *)

\* --conf texts: the default, a non-empty document, null, and two malformed ones
ConfTexts == {"{}", "[1]", "null", "{bad", ""}

\* fault variant of JsonLoads: the decoding error is swallowed and a malformed
\* text read as the empty document
JsonLoadsLenient(text) ==
    CASE text = "[1]"  -> [ok |-> TRUE, truthy |-> TRUE,  json |-> "[1]"]
      [] text = "null" -> [ok |-> TRUE, truthy |-> FALSE, json |-> "null"]
      [] OTHER         -> [ok |-> TRUE, truthy |-> FALSE, json |-> "{}"]

\* json.loads on the --conf texts: ok is FALSE where it raises JSONDecodeError;
\* truthy is the truth value of the parsed document, json its serialisation
JsonLoads(text) ==
    CASE text = "{}"   -> [ok |-> TRUE,  truthy |-> FALSE, json |-> "{}"]
      [] text = "[1]"  -> [ok |-> TRUE,  truthy |-> TRUE,  json |-> "[1]"]
      [] text = "null" -> [ok |-> TRUE,  truthy |-> FALSE, json |-> "null"]
      [] OTHER         -> [ok |-> FALSE, truthy |-> FALSE, json |-> ""]

\* the namespaces argparse can be asked to build (before its own validation)
ArgSets == [trigger : BOOLEAN, get_status : BOOLEAN, conf : ConfTexts]

NoArgs == [trigger |-> FALSE, get_status |-> FALSE, conf |-> "{}"]
NoConf == [ok |-> FALSE, truthy |-> FALSE, json |-> ""]

\* an answer to a request whose body, if JSON, is one object: kind "raise" is
\* an exception out of requests (no answer at all)
Resp(kind, status, json, isdict, d) ==
    [kind |-> kind, status |-> status, json |-> json, isdict |-> isdict, d |-> d]

NoResp == Resp("none", 0, FALSE, FALSE, EmptyDict)
RaiseResp == Resp("raise", 0, FALSE, FALSE, EmptyDict)

\* bodies: not JSON at all, JSON but not an object, or an object
BodiesOf(dicts) ==
    {[json |-> FALSE, isdict |-> FALSE, d |-> EmptyDict],
     [json |-> TRUE, isdict |-> FALSE, d |-> EmptyDict]}
    \cup {[json |-> TRUE, isdict |-> TRUE, d |-> d] : d \in dicts}

HttpResps(statuses, dicts) ==
    {Resp("http", st, b.json, b.isdict, b.d) : st \in statuses, b \in BodiesOf(dicts)}

IdpDicts ==
    {EmptyDict,
     [access_token |-> PyStr("tokA")],
     [access_token |-> PyStr("tokB")],
     [access_token |-> PyStr("")],
     [access_token |-> PyNone]}

IdpResponses == {RaiseResp} \cup HttpResps({200, 401, 500}, IdpDicts)

TriggerDicts ==
    {EmptyDict,
     [dag_run_id |-> PyStr("manual__2024"), state |-> PyStr("queued")],
     [dag_run_id |-> PyStr("manual__2024")],
     [state |-> PyStr("failed")],
     [dag_run_id |-> PyNone, state |-> PyStr("running")]}

TriggerResponses == {RaiseResp} \cup HttpResps({200, 201, 202, 404, 500}, TriggerDicts)

\* one HTTP request as sent: authorization is the text after "Bearer "
Req(to, method, path, authorization, body) ==
    [to |-> to, method |-> method, path |-> path,
     authorization |-> authorization, body |-> body]

----------------------------------------------------------------------------
(* The script: main() *)

\* sys.exit(code) after printing msgs; an exception nothing catches is the
\* interpreter's traceback and exit code 1
Exit(code, msgs) ==
    /\ pc' = "exited"
    /\ exitCode' = code
    /\ out' = out \o msgs

Uncaught(exc) == Exit(1, <<Msg("Traceback", exc, 0)>>)

\* the attributes an AirflowCLI object answers to: the methods defined in the
\* class body (lines 11-72) and the fields __init__ sets; get_dag_status, at
\* column 0 of line 74, is not among them
AirflowCLIAttrs ==
    {"__init__", "authenticate", "trigger_dag",
     "airflow_url", "username", "password", "keycloak_url", "realm",
     "client_id", "client_secret", "access_token", "headers"}

HasAttr(name) == name \in AirflowCLIAttrs

\* the mutually exclusive, required group --trigger | --get-status
ModeGroupOk(a) == a.trigger # a.get_status

\* parser.parse_args(): argparse rejects a command line with neither or both
\* of the mode flags with a usage message and exit code 2 (the other required
\* options are taken as given)
ParseArgs ==
    /\ pc = "parse_args"
    /\ IF ModeGroupOk(args)
       THEN /\ pc' = "parse_conf"
            /\ UNCHANGED <<out, exitCode>>
       ELSE Exit(2, <<Msg("usage", "", 0)>>)
    /\ UNCHANGED <<entry, args, conf_dict, access_token, requests, idp_resp,
                   trig_resp, status_resp, latest_run, spinner_idx, iter, tenths>>

\* json.loads(args.conf), then the AirflowCLI constructor
ParseConf ==
    /\ pc = "parse_conf"
    /\ LET r == JsonLoads(args.conf) IN
       IF r.ok
       THEN /\ conf_dict' = r
            /\ access_token' = PyNone
            /\ pc' = "authenticate"
            /\ UNCHANGED <<out, exitCode>>
       ELSE /\ Exit(1, <<Msg("Invalid JSON provided for --conf argument.", "", 0)>>)
            /\ UNCHANGED <<conf_dict, access_token>>
    /\ UNCHANGED <<entry, args, requests, idp_resp, trig_resp, status_resp,
                   latest_run, spinner_idx, iter, tenths>>

\* fault variant of IdpStatusOk: the status code is not looked at
IdpStatusUnchecked(status) == TRUE

\* authenticate(): the answer is accepted only with status 200 (line 37)
IdpStatusOk(status) == status = 200

\* the token authenticate() keeps: data.get("access_token")
TokenOf(resp) == DictGet(resp.d, "access_token", PyNone)

\* what authenticate() does with the provider's answer
AuthResult(resp) ==
    IF resp.kind = "raise"
    THEN [ok |-> FALSE, token |-> access_token,
          msgs |-> <<Msg("Error during Keycloak authentication", "ConnectionError", 0)>>]
    ELSE IF ~IdpStatusOk(resp.status)
    THEN [ok |-> FALSE, token |-> access_token,
          msgs |-> <<Msg("Failed to get token: HTTP", "", resp.status)>>]
    ELSE IF ~resp.json
    THEN [ok |-> FALSE, token |-> access_token,
          msgs |-> <<Msg("Error during Keycloak authentication", "JSONDecodeError", 0)>>]
    ELSE IF ~resp.isdict
    THEN [ok |-> FALSE, token |-> access_token,
          msgs |-> <<Msg("Error during Keycloak authentication", "AttributeError", 0)>>]
    ELSE IF ~Truthy(TokenOf(resp))
    THEN [ok |-> FALSE, token |-> TokenOf(resp),
          msgs |-> <<Msg("Failed to retrieve access token from Keycloak response.", "", 0)>>]
    ELSE [ok |-> TRUE, token |-> TokenOf(resp),
          msgs |-> <<Msg("Authentication successful. Access token obtained.", "", 0)>>]

\* cli.authenticate(): one POST to the provider's token endpoint
Authenticate ==
    /\ pc = "authenticate"
    /\ \E resp \in IdpResponses :
         LET r == AuthResult(resp) IN
         /\ requests' = Append(requests, Req("keycloak", "POST", "token", "", "grant_type=password"))
         /\ idp_resp' = resp
         /\ access_token' = r.token
         /\ IF r.ok
            THEN /\ pc' = "dispatch"
                 /\ out' = out \o r.msgs
                 /\ UNCHANGED exitCode
            ELSE Exit(1, r.msgs)
    /\ UNCHANGED <<entry, args, conf_dict, trig_resp, status_resp, latest_run,
                   spinner_idx, iter, tenths>>

\* if args.trigger: ... elif args.get_status: ...
Dispatch ==
    /\ pc = "dispatch"
    /\ IF args.trigger
       THEN /\ pc' = "trigger_dag"
            /\ UNCHANGED <<out, exitCode>>
       ELSE IF HasAttr("get_dag_status")
       THEN /\ pc' = "get_dag_status"
            /\ UNCHANGED <<out, exitCode>>
       ELSE Uncaught("AttributeError")
    /\ UNCHANGED <<entry, args, conf_dict, access_token, requests, idp_resp,
                   trig_resp, status_resp, latest_run, spinner_idx, iter, tenths>>

\* fault variant of TriggerStatusOk: any 2xx answer is taken as success
TriggerStatusAny2xx(status) == status \in 200..299

\* trigger_dag(): the answer is accepted with status 200 or 201 (line 63)
TriggerStatusOk(status) == status \in {200, 201}

\* payload = {"conf": conf or {}}
ConfPayload(c) == IF c.truthy THEN c.json ELSE "{}"

\* fault variant of RunIdDefault: data.get("dag_run_id") with no default
RunIdDefaultNone == PyNone

\* the marker trigger_dag substitutes for a missing dag_run_id, and the state
\* it assumes when the answer carries none
RunIdDefault == PyStr("N/A")
StateDefault == PyStr("QUEUED")

\* what trigger_dag() does with the orchestrator's answer
TriggerResult(resp) ==
    IF resp.kind = "raise"
    THEN [code |-> 1, msgs |-> <<Msg("Traceback", "ConnectionError", 0)>>]
    ELSE IF ~TriggerStatusOk(resp.status)
    THEN [code |-> 1, msgs |-> <<Msg("Failed to trigger DAG: HTTP", "", resp.status)>>]
    ELSE IF ~resp.json
    THEN [code |-> 1, msgs |-> <<Msg("Traceback", "JSONDecodeError", 0)>>]
    ELSE IF ~resp.isdict
    THEN [code |-> 1, msgs |-> <<Msg("Traceback", "AttributeError", 0)>>]
    ELSE [code |-> 0,
          msgs |-> <<Msg("DAG Run ID:", Str(DictGet(resp.d, "dag_run_id", RunIdDefault)), 0),
                     Msg("Status:", Str(DictGet(resp.d, "state", StateDefault)), 0)>>]

\* fault variant of TriggerDag: an accepted trigger goes on to the status
\* routine instead of ending the program
TriggerDagMonitors ==
    /\ pc = "trigger_dag"
    /\ \E resp \in TriggerResponses :
         LET r == TriggerResult(resp) IN
         /\ requests' = Append(requests,
                Req("airflow", "POST", "dagRuns", Str(access_token), ConfPayload(conf_dict)))
         /\ trig_resp' = resp
         /\ IF r.code = 0
            THEN /\ pc' = "get_dag_status"
                 /\ out' = out \o <<Msg("Triggering DAG", "", 0)>> \o r.msgs
                 /\ UNCHANGED exitCode
            ELSE Exit(r.code, <<Msg("Triggering DAG", "", 0)>> \o r.msgs)
    /\ UNCHANGED <<entry, args, conf_dict, access_token, idp_resp, status_resp,
                   latest_run, spinner_idx, iter, tenths>>

\* cli.trigger_dag(args.dag, conf_dict): one POST; main() then returns
TriggerDag ==
    /\ pc = "trigger_dag"
    /\ \E resp \in TriggerResponses :
         LET r == TriggerResult(resp) IN
         /\ requests' = Append(requests,
                Req("airflow", "POST", "dagRuns", Str(access_token), ConfPayload(conf_dict)))
         /\ trig_resp' = resp
         /\ Exit(r.code, <<Msg("Triggering DAG", "", 0)>> \o r.msgs)
    /\ UNCHANGED <<entry, args, conf_dict, access_token, idp_resp, status_resp,
                   latest_run, spinner_idx, iter, tenths>>

----------------------------------------------------------------------------
(* get_dag_status(self, dag_id), the function at module level *)

\* states a run can be reported in; the last two are not Airflow's lower case
RunStates ==
    {"running", "success", "failed", "upstream_failed", "skipped", "SUCCESS",
     "weird_state"}

RunDict(st) ==
    [dag_run_id |-> PyStr("manual__2024"), state |-> st,
     execution_date |-> PyStr("2024-01-01T00:00:00+00:00")]

\* the elements of dag_runs: complete ones, one whose state is null and one
\* that lacks the state key
RunDicts ==
    {RunDict(PyStr(st)) : st \in RunStates}
    \cup {RunDict(PyNone)}
    \cup {[dag_run_id |-> PyStr("manual__2024"),
           execution_date |-> PyStr("2024-01-01T00:00:00+00:00")]}

RunLists == UNION {[1..n -> RunDicts] : n \in 0..MaxRuns}

StatusResp(kind, status, json, isdict, has_runs, dag_runs) ==
    [kind |-> kind, status |-> status, json |-> json, isdict |-> isdict,
     has_runs |-> has_runs, dag_runs |-> dag_runs]

NoStatusResp == StatusResp("none", 0, FALSE, FALSE, FALSE, <<>>)

\* an exception, or an HTTP answer: not JSON, JSON but not an object, an
\* object without dag_runs, or an object with a dag_runs list
StatusResponses ==
    {StatusResp("raise", 0, FALSE, FALSE, FALSE, <<>>)}
    \cup {StatusResp("http", st, FALSE, FALSE, FALSE, <<>>) : st \in {200, 404, 500}}
    \cup {StatusResp("http", st, TRUE, FALSE, FALSE, <<>>) : st \in {200, 404, 500}}
    \cup {StatusResp("http", st, TRUE, TRUE, FALSE, <<>>) : st \in {200, 404, 500}}
    \cup {StatusResp("http", st, TRUE, TRUE, TRUE, l) : st \in {200, 404, 500}, l \in RunLists}

NoRun == [dag_run_id |-> PyNone, state |-> PyNone, execution_date |-> PyNone]

\* fault variant of StatusFetchOk: the status code is not looked at
StatusFetchUnchecked(status) == TRUE

\* get_dag_status(): the answer is accepted only with status 200 (line 88)
StatusFetchOk(status) == status = 200

\* fault variant of SpinnerIterations: one iteration too many
SpinnerIterationsOff == 10 + 1

\* for _ in range(10), over a spinner of 10 glyphs, sleeping 0.3 s each time
SpinnerIterations == 10
SpinnerLen == 10
SleepTenths == 3

RunKeys == {"dag_run_id", "state", "execution_date"}

\* fault variant of LatestOf: the state is lower-cased as it is read
LatestOfLower(resp) ==
    LET r == resp.dag_runs[1] IN
    IF "state" \in DOMAIN r
    THEN [r EXCEPT !["state"] = [t |-> r.state.t, s |-> Lower(r.state.s)]]
    ELSE r

\* data["dag_runs"][0]
LatestOf(resp) == resp.dag_runs[1]

\* what get_dag_status() does with the orchestrator's answer: next is "exit"
\* (sys.exit(1)), "return" (nothing to report) or "spin" (a run was read)
StatusResult(resp) ==
    IF resp.kind = "raise"
    THEN [next |-> "exit", run |-> NoRun,
          msgs |-> <<Msg("Error fetching DAG status:", "ConnectionError", 0)>>]
    ELSE IF ~StatusFetchOk(resp.status)
    THEN [next |-> "exit", run |-> NoRun,
          msgs |-> <<Msg("Failed to retrieve DAG status: HTTP", "", resp.status)>>]
    ELSE IF ~resp.json
    THEN [next |-> "exit", run |-> NoRun,
          msgs |-> <<Msg("Error fetching DAG status:", "JSONDecodeError", 0)>>]
    ELSE IF ~resp.isdict
    THEN [next |-> "exit", run |-> NoRun,
          msgs |-> <<Msg("Error fetching DAG status:", "AttributeError", 0)>>]
    ELSE IF ~resp.has_runs \/ resp.dag_runs = <<>>
    THEN [next |-> "return", run |-> NoRun,
          msgs |-> <<Msg("No DAG runs found for this DAG.", "", 0)>>]
    ELSE IF ~(RunKeys \subseteq DOMAIN LatestOf(resp))
    THEN [next |-> "exit", run |-> NoRun,
          msgs |-> <<Msg("Error fetching DAG status:", "KeyError", 0)>>]
    ELSE [next |-> "spin",
          run |-> [k \in RunKeys |-> LatestOf(resp)[k]],
          msgs |-> <<>>]

\* fault variant of Return: a run read as failed ends the process with code 1
ReturnExitOnFailure(msgs) ==
    IF latest_run.state \in {PyStr("failed"), PyStr("upstream_failed")}
    THEN Exit(1, msgs)
    ELSE /\ out' = out \o msgs
         /\ IF entry = "main"
            THEN pc' = "exited" /\ exitCode' = 0
            ELSE pc' = "returned" /\ UNCHANGED exitCode

\* the function returns: to main(), which then ends with exit code 0, or to
\* whoever called it
Return(msgs) ==
    /\ out' = out \o msgs
    /\ IF entry = "main"
       THEN pc' = "exited" /\ exitCode' = 0
       ELSE pc' = "returned" /\ UNCHANGED exitCode

\* lines 75-99: one GET for the latest run, and the reading of its answer
FetchStatus ==
    /\ pc = "get_dag_status"
    /\ \E resp \in StatusResponses, latency \in 0..MaxLatency :
         LET r == StatusResult(resp)
             fetching == <<Msg("Fetching latest DAG run status", "", 0)>>
         IN
         /\ requests' = Append(requests,
                Req("airflow", "GET", "dagRuns?limit=1&order_by=-execution_date",
                    Str(access_token), ""))
         /\ status_resp' = resp
         /\ latest_run' = r.run
         /\ tenths' = latency
         /\ spinner_idx' = 0
         /\ iter' = 0
         /\ CASE r.next = "exit"   -> Exit(1, fetching \o r.msgs)
              [] r.next = "return" -> Return(fetching \o r.msgs)
              [] OTHER             -> /\ pc' = "spinner"
                                      /\ out' = out \o fetching
                                      /\ UNCHANGED exitCode
    /\ UNCHANGED <<entry, args, conf_dict, access_token, idp_resp, trig_resp>>

\* one iteration of the loop at lines 101-105
Spin ==
    /\ pc = "spinner"
    /\ iter < SpinnerIterations
    /\ out' = Append(out, Msg("spinner", Str(latest_run.state), spinner_idx % SpinnerLen))
    /\ spinner_idx' = spinner_idx + 1
    /\ iter' = iter + 1
    /\ tenths' = tenths + SleepTenths
    /\ UNCHANGED <<entry, pc, args, conf_dict, access_token, requests, idp_resp,
                   trig_resp, status_resp, latest_run, exitCode>>

\* (datetime.now() - start_time).seconds
Elapsed == tenths \div 10

\* lines 107-111: the report after the loop
Report ==
    /\ pc = "spinner"
    /\ iter >= SpinnerIterations
    /\ Return(<<Msg("clear", "", 0),
                Msg("DAG Run ID:", Str(latest_run.dag_run_id), 0),
                Msg("Execution Date:", Str(latest_run.execution_date), 0),
                Msg("Final Status:", Str(latest_run.state), Elapsed)>>)
    /\ UNCHANGED <<entry, args, conf_dict, access_token, requests, idp_resp,
                   trig_resp, status_resp, latest_run, spinner_idx, iter, tenths>>

----------------------------------------------------------------------------
(* The specification *)

\* the tokens an object handed to get_dag_status directly may hold: None
\* (constructed only) or one that authenticate() stored
CallerTokens == {PyNone, PyStr("tokA")}

Init ==
    /\ entry \in {"main", "call"}
    /\ IF entry = "main"
       THEN pc = "parse_args" /\ args \in ArgSets /\ access_token = PyNone
       ELSE pc = "get_dag_status" /\ args = NoArgs /\ access_token \in CallerTokens
    /\ conf_dict = NoConf
    /\ requests = <<>>
    /\ idp_resp = NoResp
    /\ trig_resp = NoResp
    /\ status_resp = NoStatusResp
    /\ latest_run = NoRun
    /\ spinner_idx = 0
    /\ iter = 0
    /\ tenths = 0
    /\ out = <<>>
    /\ exitCode = -1

Next ==
    \/ ParseArgs
    \/ ParseConf
    \/ Authenticate
    \/ Dispatch
    \/ TriggerDag
    \/ FetchStatus
    \/ Spin
    \/ Report

Spec == Init /\ [][Next]_vars

\* one thread of control, and every request is answered or raises: a step
\* that can be taken is taken
FairSpec == Spec /\ WF_vars(Next)

Terminated == pc \in {"exited", "returned"}

----------------------------------------------------------------------------
(* Vocabulary of the properties *)

\* positions in the request log of the requests of one kind
ReqsTo(to, method) ==
    {i \in 1..Len(requests) : requests[i].to = to /\ requests[i].method = method}

StartRequests == ReqsTo("airflow", "POST")
StatusFetches == ReqsTo("airflow", "GET")
IdpRequests == ReqsTo("keycloak", "POST")

\* positions in the output of the lines of one kind
Printed(m) == {i \in 1..Len(out) : out[i].msg = m}

\* the status routine read a run out of the answer to its fetch
RunRead == latest_run # NoRun

\* the status fetch failed: an exception out of the request, or a non-200 answer
FetchFailed ==
    \/ status_resp.kind = "raise"
    \/ status_resp.kind = "http" /\ status_resp.status # 200

\* the trigger request was answered 200 or 201 with a JSON object
TriggerAccepted ==
    /\ trig_resp.kind = "http"
    /\ trig_resp.status \in {200, 201}
    /\ trig_resp.json
    /\ trig_resp.isdict

\* the terminal states of the specification's poller, and its outcome mapper
TerminalStates == {"success", "failed", "upstream_failed", "skipped"}

MapOutcome(s) ==
    CASE s = "success" -> 0
      [] s \in {"failed", "upstream_failed"} -> 1
      [] OTHER -> 2

\* the lines that end a run of the program with exit code 1
ErrorLines ==
    {"Invalid JSON provided for --conf argument.",
     "Error during Keycloak authentication",
     "Failed to get token: HTTP",
     "Failed to retrieve access token from Keycloak response.",
     "Failed to trigger DAG: HTTP",
     "Failed to retrieve DAG status: HTTP",
     "Error fetching DAG status:",
     "Traceback"}

----------------------------------------------------------------------------
(* C1: monitoring after a trigger *)

\* C1 as stated: after a run is triggered the program monitors it, polling
\* while the observed state is not terminal and returning only at a terminal
\* observation.
C1_MonitorsUntilTerminal ==
    /\ (entry = "main" /\ TriggerAccepted /\ Terminated) => StatusFetches # {}
    /\ (RunRead /\ Terminated) => Lower(Str(latest_run.state)) \in TerminalStates

\* C1 amended: after a run is triggered the program does not monitor it; a
\* triggering run never sends a status fetch and ends with the trigger's
\* answer.  get_dag_status fetches the state once and, having read a run,
\* returns normally after that single observation whether or not the state is
\* terminal; no status fetch follows it.
C1_SingleObservation ==
    /\ (entry = "main" /\ args.trigger) => StatusFetches = {}
    /\ trig_resp.kind # "none" => pc = "exited" /\ StatusFetches = {}
    /\ Cardinality(StatusFetches) <= 1
    /\ RunRead => Cardinality(StatusFetches) = 1
    /\ (RunRead /\ Terminated) =>
          /\ Printed("Final Status:") # {}
          /\ exitCode # 1

\* a run still running was read, and the routine returned all the same
C1_ReturnedWhileRunning ==
    /\ pc = "returned"
    /\ latest_run.state = PyStr("running")
    /\ Cardinality(StatusFetches) = 1

----------------------------------------------------------------------------
(* C2: a failed status fetch *)

----------------------------------------------------------------------------
(* C3: the exit code *)

\* the exit code a run of the routine ends the process with: a normal return
\* is a normal end, code 0
EndCode == IF pc = "returned" THEN 0 ELSE exitCode

----------------------------------------------------------------------------
(* C4: announcing the state *)

\* the lines, other than the final report, that announce a state
Announcements == Printed("spinner") \cup Printed("State changed")

----------------------------------------------------------------------------
(* C5: the start request *)

\* C5: trigger_dag sends exactly one start request.  An answer of 200 or 201
\* is taken as success: the failure branch is not taken, and the program ends
\* with exit code 0 when the body is a JSON object.  On any other status code
\* the program reports the failure and exits with code 1, with no second start
\* request and no status fetch.
C5_OneStartRequest ==
    /\ Cardinality(StartRequests) <= 1
    /\ pc = "trigger_dag" => StartRequests = {}
    /\ trig_resp.kind # "none" =>
          /\ Cardinality(StartRequests) = 1
          /\ StatusFetches = {}
          /\ pc = "exited"
    /\ (trig_resp.kind = "http" /\ trig_resp.status \notin {200, 201}) =>
          /\ exitCode = 1
          /\ out[Len(out)] = Msg("Failed to trigger DAG: HTTP", "", trig_resp.status)
    /\ (trig_resp.kind = "http" /\ trig_resp.status \in {200, 201}) =>
          /\ Printed("Failed to trigger DAG: HTTP") = {}
          /\ (trig_resp.json /\ trig_resp.isdict) => exitCode = 0

\* the orchestrator answered the start request with 202 and the program gave up
C5_Rejected202 ==
    /\ trig_resp.kind = "http"
    /\ trig_resp.status = 202
    /\ trig_resp.isdict
    /\ pc = "exited"
    /\ exitCode = 1
    /\ Cardinality(StartRequests) = 1

----------------------------------------------------------------------------
(* C6: malformed --conf *)

\* the --conf texts that are not JSON
MalformedConf == {"{bad", ""}

\* C6: when --conf is not valid JSON the program makes no network call, to the
\* identity provider or to the orchestrator, and once past its argument
\* handling it has exited with a non-zero code.
C6_BadConfNoNetwork ==
    (entry = "main" /\ args.conf \in MalformedConf) =>
        /\ requests = <<>>
        /\ pc \in {"parse_args", "parse_conf", "exited"}
        /\ pc = "exited" => exitCode \in {1, 2}
        /\ (pc = "exited" /\ args.trigger # args.get_status) =>
              /\ exitCode = 1
              /\ out = <<Msg("Invalid JSON provided for --conf argument.", "", 0)>>

\* a well-formed command line with a malformed --conf ended with exit code 1
C6_BadConfExited ==
    /\ entry = "main"
    /\ args.conf = "{bad"
    /\ args.trigger /\ ~args.get_status
    /\ pc = "exited"
    /\ exitCode = 1
    /\ requests = <<>>

----------------------------------------------------------------------------
(* C7: no orchestrator request without a credential *)

\* the identity provider gave a usable token: 200, a JSON object, and in it a
\* non-empty access_token
IdpGaveToken ==
    /\ idp_resp.kind = "http"
    /\ idp_resp.status = 200
    /\ idp_resp.json
    /\ idp_resp.isdict
    /\ "access_token" \in DOMAIN idp_resp.d
    /\ idp_resp.d["access_token"].t = "str"
    /\ idp_resp.d["access_token"].s # ""

\* C7: in a run of the program every orchestrator request comes after the
\* request to the identity provider and carries the non-empty token that
\* answer held, never the unset one; and when the provider answers with a
\* status other than 200, without a usable access_token, or not at all, the
\* program exits with code 1 and no orchestrator request is sent.
C7_CredentialBeforeRequest ==
    entry = "main" =>
        /\ \A i \in 1..Len(requests) :
              requests[i].to = "airflow" =>
                  /\ \E j \in 1..(i - 1) : requests[j].to = "keycloak"
                  /\ IdpGaveToken
                  /\ requests[i].authorization = idp_resp.d["access_token"].s
                  /\ requests[i].authorization \notin {"", "None"}
        /\ (idp_resp.kind # "none" /\ ~IdpGaveToken) =>
              /\ pc = "exited"
              /\ exitCode = 1
              /\ \A i \in 1..Len(requests) : requests[i].to # "airflow"

\* the start request went out carrying the token the provider returned
C7_TokenCarried ==
    /\ entry = "main"
    /\ IdpGaveToken
    /\ idp_resp.d["access_token"].s = "tokB"
    /\ \E i \in StartRequests : requests[i].authorization = "tokB"

----------------------------------------------------------------------------
(* C8: the run identifier *)

\* C8: when the trigger is answered 200 or 201 with a JSON object, the run
\* identifier printed is the answer's dag_run_id when it has one and the
\* marker N/A when it has none, and in both cases the program ends with exit
\* code 0.
C8_RunIdReported ==
    TriggerAccepted =>
        /\ exitCode = 0
        /\ Cardinality(Printed("DAG Run ID:")) = 1
        /\ \A i \in Printed("DAG Run ID:") :
              out[i].arg =
                  IF "dag_run_id" \in DOMAIN trig_resp.d
                  THEN Str(trig_resp.d["dag_run_id"])
                  ELSE "N/A"

\* an accepted trigger whose answer had no dag_run_id was reported as N/A
C8_SentinelReported ==
    /\ TriggerAccepted
    /\ "dag_run_id" \notin DOMAIN trig_resp.d
    /\ exitCode = 0
    /\ \E i \in Printed("DAG Run ID:") : out[i].arg = "N/A"

----------------------------------------------------------------------------
(* C9: status-only mode *)

\* C9 as stated: in status-only mode, once authentication has succeeded, the
\* program sends the list request for the DAG's runs with its token and
\* reports the state of element 0 of dag_runs; the status routine is reached
\* through the AirflowCLI object.
C9_StatusModeFetches ==
    (entry = "main" /\ args.get_status /\ ~args.trigger /\ IdpGaveToken /\ Terminated) =>
        /\ Printed("Traceback") = {}
        /\ Cardinality(StatusFetches) = 1
        /\ \A i \in StatusFetches :
              /\ requests[i].path = "dagRuns?limit=1&order_by=-execution_date"
              /\ requests[i].authorization = idp_resp.d["access_token"].s
        /\ RunRead =>
              \E i \in Printed("Final Status:") :
                  out[i].arg = Str(status_resp.dag_runs[1].state)

----------------------------------------------------------------------------
(* C10: termination and the number of requests *)

\* at most one request to the identity provider and one to the orchestrator,
\* a POST only when triggering and a GET only for a status; one mode at most;
\* and a spinner loop of 10 iterations around no further fetch
C10_Resources ==
    /\ Cardinality(IdpRequests) <= 1
    /\ Cardinality(StartRequests) + Cardinality(StatusFetches) <= 1
    /\ Len(requests) =
          Cardinality(IdpRequests) + Cardinality(StartRequests) + Cardinality(StatusFetches)
    /\ StartRequests # {} => entry = "main" /\ args.trigger /\ ~args.get_status
    /\ (StatusFetches # {} /\ entry = "main") => args.get_status /\ ~args.trigger
    /\ (entry = "main" /\ pc \notin {"parse_args", "exited"}) => args.trigger # args.get_status
    /\ pc = "trigger_dag" => args.trigger
    /\ iter <= 10
    /\ Cardinality(Printed("spinner")) = iter
    /\ pc = "spinner" => Cardinality(StatusFetches) = 1
    /\ (RunRead /\ Terminated) => iter = 10 /\ Cardinality(StatusFetches) = 1

\* C10: every execution terminates, whatever the servers answer.  At most one
\* of the two modes runs; an execution makes at most one request to the
\* identity provider and at most one to the orchestrator (a POST when
\* triggering, a GET for a status, never both); and the spinner loop of the
\* status routine runs exactly 10 iterations without fetching the state again.
C10_BoundedRun == []C10_Resources /\ <>Terminated

\* the status routine returned after 10 iterations and a single fetch
C10_TenFrames ==
    /\ pc = "returned"
    /\ iter = 10
    /\ Cardinality(Printed("spinner")) = 10
    /\ Cardinality(StatusFetches) = 1
    /\ Len(requests) = 1

====
